---- MODULE Spec2Model ----
(***************************************************************************)
(* NTLM authentication relay of goproxy (ext/auth/ntlm.go).                *)
(*                                                                         *)
(* The handler returned by NTLMAuthMiddleware is run once per inbound      *)
(* request, possibly by many goroutines at once.  The only shared state is *)
(* ntlmClientCache.  Each handler is cut at its accesses to the cache and  *)
(* at its blocking round trips; everything between two such points is      *)
(* local and belongs to the action that precedes it.                       *)
(***************************************************************************)
EXTENDS Naturals, Sequences, FiniteSets

VARIABLES
    maxRetries,   \* auth.MaxRetries, fixed when the middleware is built
    cache,        \* ntlmClientCache: host -> client (0 = no entry)
    instances,    \* every *http.Client constructed so far; instances[i] = its host
    pc,           \* position of each handler invocation
    req,          \* the inbound request of each invocation, as it is now
    orig,         \* the inbound request as it was when the handler was invoked
    outReq,       \* the local variable outReq
    cancelled,    \* whether the caller's context has been cancelled
    phase,        \* "first": before the retry branch, "retry": inside it
    attempt,      \* the loop variable attempt
    client,       \* the local variable client
    got,          \* the clients getNTLMClientForHost returned to this invocation
    resp,         \* the local variable resp
    ret,          \* the response the handler returned
    hist          \* the round trips this invocation performed

vars == <<maxRetries, cache, instances, pc, req, orig, outReq, cancelled, phase, attempt,
          client, got, resp, ret, hist>>

----------------------------------------------------------------------------
(* Bounds *)

MaxRetriesBound == 2
MaxRetriesConc == 1
NumReqs == 2

Reqs == 1..NumReqs
Hosts == {"a.example", "b.example"}

----------------------------------------------------------------------------
(* Strings are sequences of characters *)

Lower == <<"a","b","c","d","e","f","g","h","i","j","k","l","m",
           "n","o","p","q","r","s","t","u","v","w","x","y","z">>
Upper == <<"A","B","C","D","E","F","G","H","I","J","K","L","M",
           "N","O","P","Q","R","S","T","U","V","W","X","Y","Z">>

ToUpperChar(c) ==
    IF \E i \in DOMAIN Lower : Lower[i] = c
    THEN Upper[CHOOSE i \in DOMAIN Lower : Lower[i] = c]
    ELSE c

ToUpper(s) == [i \in DOMAIN s |-> ToUpperChar(s[i])]

Contains(s, sub) ==
    \E i \in 0..Len(s) :
        /\ i + Len(sub) <= Len(s)
        /\ SubSeq(s, i + 1, i + Len(sub)) = sub

NTLM == <<"N","T","L","M">>

----------------------------------------------------------------------------
(* Responses *)

StatusUnauthorized == 401
StatusProxyAuthRequired == 407

HdrBasic == <<"B","a","s","i","c"," ","r","e","a","l","m","=","x">>
HdrNtlmToken == <<"N","T","L","M"," ","T","l","R","M">>
HdrNtlmLower == <<"n","t","l","m">>

\* status codes an upstream response may carry
UpstreamStatuses == {200, StatusUnauthorized}
\* values of the Www-Authenticate header an upstream response may carry
WwwValues == { <<>>, <<HdrBasic>>, <<HdrNtlmToken>>, <<HdrBasic, HdrNtlmLower>> }
\* values of the Proxy-Authenticate header
ProxyValues == { <<>>, <<NTLM>> }

\* the nil *http.Response
NilResponse ==
    [status |-> 0, www |-> <<>>, proxy |-> <<>>, body |-> "", src |-> "nil", seq |-> 0]

NewResponseWrongStatus(status, body) ==
    [status |-> StatusUnauthorized, www |-> <<>>, proxy |-> <<>>, body |-> body,
     src |-> "local", seq |-> 0]

\* goproxy.NewResponse(req, ContentTypeText, status, body)
NewResponse(status, body) ==
    [status |-> status, www |-> <<>>, proxy |-> <<>>, body |-> body,
     src |-> "local", seq |-> 0]

NTLMFailedResponse == NewResponse(StatusProxyAuthRequired, "NTLM Authentication Failed")

\* what the upstream can answer to one round trip: a response or an error
Answers ==
    [err : {FALSE}, status : UpstreamStatuses, www : WwwValues, proxy : ProxyValues]
    \cup { [err |-> TRUE, status |-> 0, www |-> <<>>, proxy |-> <<>>] }

\* the answers used when several requests run at once
CoarseAnswers ==
    { a \in Answers : /\ a.proxy = <<>>
                      /\ a.status = StatusUnauthorized <=> a.www = <<HdrNtlmToken>>
                      /\ a.status # StatusUnauthorized => a.www = <<>> }

\* the outcome of the n-th round trip of an invocation, as Transport.RoundTrip returns it
RoundTrip(a, n) ==
    IF a.err
    THEN [err |-> TRUE, resp |-> NilResponse]
    ELSE [err |-> FALSE,
          resp |-> [status |-> a.status, www |-> a.www, proxy |-> a.proxy,
                    body |-> "upstream", src |-> "upstream", seq |-> n]]

----------------------------------------------------------------------------
(* Requests *)

\* method, body, RequestURI and header names of the inbound requests considered
Shapes ==
    { [method |-> "GET",  body |-> <<>>,           requestURI |-> "/",  header |-> {}],
      [method |-> "POST", body |-> <<"b1", "b2">>, requestURI |-> "/",  header |-> {"Accept"}],
      [method |-> "POST", body |-> <<"b1">>,       requestURI |-> "",   header |-> {"Accept"}] }

\* an inbound *http.Request; valid: http.NewRequest accepts its method and URL;
\* body: the bytes not yet read from its Body stream
InboundRequest(h, ok, sh) ==
    [host |-> h, valid |-> ok, method |-> sh.method, url |-> <<"http", h>>,
     header |-> sh.header, requestURI |-> sh.requestURI, body |-> sh.body]

NoReq == InboundRequest("", FALSE, [method |-> "", body |-> <<>>, requestURI |-> "", header |-> {}])

\* no outbound request built yet
NoOut ==
    [method |-> "", url |-> <<>>, host |-> "", header |-> {}, headerShared |-> FALSE,
     requestURI |-> "", bodyShared |-> FALSE, body |-> <<>>]

----------------------------------------------------------------------------
(* Pure functions of ntlm.go *)

isNTLMRequiredAnyHeader(r) == Len(r.www) > 0

isNTLMRequired(r) ==
    \E i \in DOMAIN r.www : Contains(ToUpper(r.www[i]), NTLM)

\* the error of http.NewRequest is dropped
createOutboundRequestNoError(q) ==
    [err |-> FALSE,
     out |-> [method |-> q.method, url |-> q.url, host |-> q.host,
              header |-> q.header, headerShared |-> FALSE,
              requestURI |-> "", bodyShared |-> TRUE, body |-> <<>>]]

\* the copy is made with every field of the inbound request, RequestURI included
createOutboundRequestKeepsURI(q) ==
    [err |-> ~q.valid,
     out |-> [method |-> q.method, url |-> q.url, host |-> q.host,
              header |-> q.header, headerShared |-> FALSE,
              requestURI |-> q.requestURI, bodyShared |-> TRUE, body |-> <<>>]]

\* outReq.Header = req.Header, without Clone
createOutboundRequestSharedHeader(q) ==
    [err |-> ~q.valid,
     out |-> [method |-> q.method, url |-> q.url, host |-> q.host,
              header |-> q.header, headerShared |-> TRUE,
              requestURI |-> "", bodyShared |-> TRUE, body |-> <<>>]]

\* http.NewRequest(req.Method, req.URL.String(), req.Body): the new request's
\* Body is the inbound stream itself (bodyShared); Header is req.Header.Clone(),
\* a map of its own; Host is copied; RequestURI is ""
createOutboundRequest(q) ==
    [err |-> ~q.valid,
     out |-> [method |-> q.method, url |-> q.url, host |-> q.host,
              header |-> q.header, headerShared |-> FALSE,
              requestURI |-> "", bodyShared |-> TRUE, body |-> <<>>]]

LoopCondOffByOne(r) == attempt[r] <= maxRetries

\* for attempt := 0; attempt < auth.MaxRetries; attempt++
LoopCond(r) == attempt[r] < maxRetries

----------------------------------------------------------------------------
(* Initial state *)

InitCommon ==
    /\ cache = [h \in Hosts |-> 0]
    /\ instances = <<>>
    /\ pc = [r \in Reqs |-> "idle"]
    /\ req = [r \in Reqs |-> NoReq]
    /\ orig = [r \in Reqs |-> NoReq]
    /\ outReq = [r \in Reqs |-> NoOut]
    /\ cancelled = [r \in Reqs |-> FALSE]
    /\ phase = [r \in Reqs |-> "first"]
    /\ attempt = [r \in Reqs |-> 0]
    /\ client = [r \in Reqs |-> 0]
    /\ got = [r \in Reqs |-> <<>>]
    /\ resp = [r \in Reqs |-> NilResponse]
    /\ ret = [r \in Reqs |-> NilResponse]
    /\ hist = [r \in Reqs |-> <<>>]

Init ==
    /\ maxRetries \in 0..MaxRetriesBound
    /\ InitCommon

InitConc ==
    /\ maxRetries \in 0..MaxRetriesConc
    /\ InitCommon

----------------------------------------------------------------------------
(* The handler *)

Return(r, response) ==
    /\ ret' = [ret EXCEPT ![r] = response]
    /\ pc' = [pc EXCEPT ![r] = "done"]

\* lines 35-43: the handler is invoked with request q; the outbound copy is made
Enter(r, q) ==
    /\ pc[r] = "idle"
    /\ req' = [req EXCEPT ![r] = q]
    /\ orig' = [orig EXCEPT ![r] = q]
    /\ LET c == createOutboundRequest(q) IN
       IF c.err
       THEN /\ Return(r, NTLMFailedResponse)
            /\ outReq' = outReq
       ELSE /\ outReq' = [outReq EXCEPT ![r] = c.out]
            /\ pc' = [pc EXCEPT ![r] = "load"]
            /\ ret' = ret
    /\ UNCHANGED <<maxRetries, cache, instances, cancelled, phase, attempt, client, got,
                   resp, hist>>

\* where the handler goes on once getNTLMClientForHost has returned
AfterClient(r) == IF phase[r] = "first" THEN "rt" ELSE "clone"

\* getNTLMClientForHost, lines 99-102: ntlmClientCache.Load(host)
Load(r) ==
    /\ pc[r] = "load"
    /\ LET c == cache[req[r].host] IN
       IF c # 0
       THEN /\ client' = [client EXCEPT ![r] = c]
            /\ got' = [got EXCEPT ![r] = Append(@, c)]
            /\ pc' = [pc EXCEPT ![r] = AfterClient(r)]
       ELSE /\ pc' = [pc EXCEPT ![r] = "store"]
            /\ UNCHANGED <<client, got>>
    /\ UNCHANGED <<maxRetries, cache, instances, req, orig, outReq, cancelled, phase,
                   attempt, resp, ret, hist>>

\* every host shares the client just built
StoreForEveryHost(r) ==
    /\ pc[r] = "store"
    /\ LET c == Len(instances) + 1 IN
       /\ instances' = Append(instances, req[r].host)
       /\ cache' = [h \in Hosts |-> c]
       /\ client' = [client EXCEPT ![r] = c]
       /\ got' = [got EXCEPT ![r] = Append(@, c)]
    /\ pc' = [pc EXCEPT ![r] = AfterClient(r)]
    /\ UNCHANGED <<maxRetries, req, orig, outReq, cancelled, phase, attempt, resp, ret, hist>>

\* getNTLMClientForHost, lines 104-118: build a client, ntlmClientCache.Store(host, client)
Store(r) ==
    /\ pc[r] = "store"
    /\ LET c == Len(instances) + 1 IN
       /\ instances' = Append(instances, req[r].host)
       /\ cache' = [cache EXCEPT ![req[r].host] = c]
       /\ client' = [client EXCEPT ![r] = c]
       /\ got' = [got EXCEPT ![r] = Append(@, c)]
    /\ pc' = [pc EXCEPT ![r] = AfterClient(r)]
    /\ UNCHANGED <<maxRetries, req, orig, outReq, cancelled, phase, attempt, resp, ret, hist>>

\* the stream the transport reads the body of outReq[r] from
BodySource(r) == IF outReq[r].bodyShared THEN req[r].body ELSE outReq[r].body

\* client.Transport.RoundTrip(outReq) answered by a: the transport reads n bytes
\* of the body and transmits them; an exchange that yields a response has
\* transmitted the whole body, a failed one any prefix of it.  The round trip
\* is recorded with the request as it was sent.
Exchange(r, a, n) ==
    /\ n \in 0..Len(BodySource(r))
    /\ a.err \/ n = Len(BodySource(r))
    /\ LET o == RoundTrip(a, Len(hist[r]) + 1) IN
       hist' = [hist EXCEPT ![r] =
                  Append(@, [err |-> o.err, resp |-> o.resp, via |-> client[r],
                             sent |-> SubSeq(BodySource(r), 1, n),
                             uri |-> outReq[r].requestURI,
                             cancelled |-> cancelled[r]])]
    /\ IF outReq[r].bodyShared
       THEN req' = [req EXCEPT ![r].body = SubSeq(@, n + 1, Len(@))]
       ELSE req' = req

\* lines 48-57 and 93: the first round trip and the test for an NTLM challenge
FirstRoundTrip(r, a) ==
    /\ pc[r] = "rt"
    /\ phase[r] = "first"
    /\ \E n \in 0..Len(BodySource(r)) : Exchange(r, a, n)
    /\ LET o == RoundTrip(a, Len(hist[r]) + 1) IN
          IF o.err
          THEN /\ Return(r, NTLMFailedResponse)
               /\ UNCHANGED <<resp, phase>>
          ELSE /\ resp' = [resp EXCEPT ![r] = o.resp]
               /\ IF o.resp.status = StatusUnauthorized /\ isNTLMRequired(o.resp)
                  THEN /\ phase' = [phase EXCEPT ![r] = "retry"]
                       /\ pc' = [pc EXCEPT ![r] = "loop"]
                       /\ ret' = ret
                  ELSE /\ Return(r, o.resp)
                       /\ phase' = phase
    /\ UNCHANGED <<maxRetries, cache, instances, orig, outReq, cancelled, attempt, client, got>>

\* the loop test without the return that follows the loop
LoopHeadNoExit(r) ==
    /\ pc[r] = "loop"
    /\ LoopCond(r)
    /\ pc' = [pc EXCEPT ![r] = "load"]
    /\ UNCHANGED <<maxRetries, cache, instances, req, orig, outReq, cancelled, phase, attempt,
                   client, got, resp, ret, hist>>

\* line 59 and lines 87-89: the loop test; on exit the last resp is returned
LoopHead(r) ==
    /\ pc[r] = "loop"
    /\ IF LoopCond(r)
       THEN /\ pc' = [pc EXCEPT ![r] = "load"]
            /\ ret' = ret
       ELSE Return(r, resp[r])
    /\ UNCHANGED <<maxRetries, cache, instances, req, orig, outReq, cancelled, phase, attempt,
                   client, got, resp, hist>>

\* lines 65-70: the outbound copy is rebuilt for the retry
Reclone(r) ==
    /\ pc[r] = "clone"
    /\ LET c == createOutboundRequest(req[r]) IN
       IF c.err
       THEN /\ Return(r, NTLMFailedResponse)
            /\ outReq' = outReq
       ELSE /\ outReq' = [outReq EXCEPT ![r] = c.out]
            /\ pc' = [pc EXCEPT ![r] = "rt"]
            /\ ret' = ret
    /\ UNCHANGED <<maxRetries, cache, instances, req, orig, cancelled, phase, attempt, client,
                   got, resp, hist>>

\* lines 72-85: the retry round trip
RetryRoundTrip(r, a) ==
    /\ pc[r] = "rt"
    /\ phase[r] = "retry"
    /\ \E n \in 0..Len(BodySource(r)) : Exchange(r, a, n)
    /\ LET o == RoundTrip(a, Len(hist[r]) + 1) IN
            /\ resp' = [resp EXCEPT ![r] = o.resp]
            /\ IF o.err
               THEN \* continue
                    /\ attempt' = [attempt EXCEPT ![r] = @ + 1]
                    /\ pc' = [pc EXCEPT ![r] = "loop"]
                    /\ ret' = ret
               ELSE IF o.resp.status # StatusUnauthorized
               THEN /\ Return(r, o.resp)
                    /\ attempt' = attempt
               ELSE /\ attempt' = [attempt EXCEPT ![r] = @ + 1]
                    /\ pc' = [pc EXCEPT ![r] = "loop"]
                    /\ ret' = ret
    /\ UNCHANGED <<maxRetries, cache, instances, orig, outReq, cancelled, phase, client, got>>

----------------------------------------------------------------------------
(* The handler's surroundings *)

\* the transport sets the Authorization header on the request it was handed
\* (lines 48 and 72 pass outReq to it by reference)
TransportSetsHeader(r) ==
    /\ pc[r] = "rt"
    /\ IF outReq[r].headerShared
       THEN /\ "Authorization" \notin req[r].header
            /\ req' = [req EXCEPT ![r].header = @ \cup {"Authorization"}]
            /\ outReq' = outReq
       ELSE /\ "Authorization" \notin outReq[r].header
            /\ outReq' = [outReq EXCEPT ![r].header = @ \cup {"Authorization"}]
            /\ req' = req
    /\ UNCHANGED <<maxRetries, cache, instances, pc, orig, cancelled, phase, attempt, client,
                   got, resp, ret, hist>>

\* the caller's context is cancelled while the request is in the relay; the
\* handler never reads req.Context() and http.NewRequest (line 134) gives
\* outReq the background context
Cancel(r) ==
    /\ pc[r] \notin {"idle", "done"}
    /\ ~cancelled[r]
    /\ cancelled' = [cancelled EXCEPT ![r] = TRUE]
    /\ UNCHANGED <<maxRetries, cache, instances, pc, req, orig, outReq, phase, attempt, client,
                   got, resp, ret, hist>>

----------------------------------------------------------------------------
(* Specifications *)

InboundRequests ==
    { InboundRequest(h, ok, sh) : h \in Hosts, ok \in BOOLEAN, sh \in Shapes }

\* the inbound requests used when several requests run at once
CoarseRequests ==
    { q \in InboundRequests : q.body = <<>> }

\* one inbound request in the relay, any upstream answer
Next ==
    \/ \E q \in InboundRequests : Enter(1, q)
    \/ Load(1)
    \/ Store(1)
    \/ \E a \in Answers : FirstRoundTrip(1, a)
    \/ LoopHead(1)
    \/ Reclone(1)
    \/ \E a \in Answers : RetryRoundTrip(1, a)
    \/ TransportSetsHeader(1)
    \/ Cancel(1)

Spec == Init /\ [][Next]_vars

\* the answers that decide how often a request asks the cache for a client:
\* a challenge (one more retry) or a final response
CacheAnswers == { a \in CoarseAnswers : ~a.err }

\* NumReqs inbound requests handled concurrently
NextConc ==
    \/ \E r \in Reqs, q \in CoarseRequests : Enter(r, q)
    \/ \E r \in Reqs : Load(r)
    \/ \E r \in Reqs : Store(r)
    \/ \E r \in Reqs, a \in CacheAnswers : FirstRoundTrip(r, a)
    \/ \E r \in Reqs : LoopHead(r)
    \/ \E r \in Reqs : Reclone(r)
    \/ \E r \in Reqs, a \in CacheAnswers : RetryRoundTrip(r, a)

SpecConc == InitConc /\ [][NextConc]_vars

\* one inbound request whose handler and round trips always proceed
NextLive ==
    \/ \E q \in InboundRequests : Enter(1, q)
    \/ Load(1)
    \/ Store(1)
    \/ \E a \in CoarseAnswers : FirstRoundTrip(1, a)
    \/ LoopHead(1)
    \/ Reclone(1)
    \/ \E a \in CoarseAnswers : RetryRoundTrip(1, a)

\* the goroutine running the handler is scheduled, and every round trip returns
Fairness ==
    /\ WF_vars(Load(1))
    /\ WF_vars(Store(1))
    /\ WF_vars(\E a \in CoarseAnswers : FirstRoundTrip(1, a))
    /\ WF_vars(LoopHead(1))
    /\ WF_vars(Reclone(1))
    /\ WF_vars(\E a \in CoarseAnswers : RetryRoundTrip(1, a))

SpecLive == Init /\ [][NextLive]_vars /\ Fairness

----------------------------------------------------------------------------
(* Properties *)

Done(r) == pc[r] = "done"

HasNTLMToken(values) ==
    \E i \in DOMAIN values : Contains(ToUpper(values[i]), NTLM)

\* an NTLM challenge as the design defines it: 401 with the token NTLM, in any
\* letter case, in a WWW-Authenticate or a Proxy-Authenticate value
ClaimedChallenge(r) ==
    /\ r.status = StatusUnauthorized
    /\ HasNTLMToken(r.www) \/ HasNTLMToken(r.proxy)

Received(r, i) == ~hist[r][i].err

IsFailed407(response) ==
    /\ response.src = "local"
    /\ response.status = 407
    /\ response.body = "NTLM Authentication Failed"

ClientsOf(h) == {i \in DOMAIN instances : instances[i] = h}

\* C1: however the getNTLMClientForHost calls for one host interleave, one
\* client is constructed for that host and every call returns that client.
C1_OneClientPerHost ==
    /\ \A h \in Hosts : Cardinality(ClientsOf(h)) <= 1
    /\ \A r1, r2 \in Reqs :
          req[r1].host = req[r2].host =>
             \A i \in DOMAIN got[r1], j \in DOMAIN got[r2] : got[r1][i] = got[r2][j]

\* C2: one inbound request causes at most MaxRetries + 1 round trips.
C2_RoundTripBound ==
    \A r \in Reqs : Len(hist[r]) <= maxRetries + 1

\* an upstream that always challenged, and the whole budget was spent
C2_Witness ==
    \E r \in Reqs :
        /\ Done(r)
        /\ maxRetries >= 1
        /\ Len(hist[r]) = maxRetries + 1
        /\ \A i \in DOMAIN hist[r] : Received(r, i) /\ ClaimedChallenge(hist[r][i].resp)

\* C3: a retry round trip that returns a transport error is the last round
\* trip of the request, and the handler returns the synthesized 407.
C3_RetryErrorStops ==
    \A r \in Reqs : \A i \in DOMAIN hist[r] :
        (i >= 2 /\ hist[r][i].err) =>
            /\ Len(hist[r]) = i
            /\ Done(r) => IsFailed407(ret[r])

\* C4: the handler returns a non-nil response that is either a response it
\* received from the upstream in this invocation or the synthesized 407.
C4_ConcreteResponse ==
    \A r \in Reqs :
        Done(r) =>
            /\ ret[r] # NilResponse
            /\ \/ IsFailed407(ret[r])
               \/ \E i \in DOMAIN hist[r] : Received(r, i) /\ hist[r][i].resp = ret[r]

\* C5: a transport error on the first round trip ends the request after that
\* one round trip with the synthesized 407 "NTLM Authentication Failed".
C5_FirstErrorGives407 ==
    \A r \in Reqs :
        (Len(hist[r]) >= 1 /\ hist[r][1].err) =>
            /\ Len(hist[r]) = 1
            /\ Done(r)
            /\ IsFailed407(ret[r])

C5_Witness ==
    \E r \in Reqs : Done(r) /\ Len(hist[r]) = 1 /\ hist[r][1].err /\ maxRetries >= 1

\* C6: when every round trip of a request is answered by a 401 NTLM
\* challenge, the handler returns after exactly MaxRetries + 1 round trips
\* with the response of the last one.
C6_AlwaysChallenged ==
    \A r \in Reqs :
        ( /\ Len(hist[r]) >= 1
          /\ \A i \in DOMAIN hist[r] : Received(r, i) /\ ClaimedChallenge(hist[r][i].resp) ) =>
            /\ Done(r) => Len(hist[r]) = maxRetries + 1
            /\ Done(r) => ret[r] = hist[r][Len(hist[r])].resp
            /\ Len(hist[r]) <= maxRetries + 1

\* C7: k <= MaxRetries challenges followed by a non-401 response: the
\* handler goes on to round trip k + 1 after the k challenges, stops there
\* and returns that response.
C7_ChallengesThenSuccess ==
    \A r \in Reqs :
        LET n == Len(hist[r])
            Challenged(k) == \A i \in 1..k : Received(r, i) /\ ClaimedChallenge(hist[r][i].resp)
        IN  /\ (n >= 1 /\ n <= maxRetries /\ Challenged(n)) => ~Done(r)
            /\ ( /\ n >= 1
                 /\ Challenged(n - 1)
                 /\ Received(r, n)
                 /\ hist[r][n].resp.status # StatusUnauthorized ) =>
                    Done(r) /\ ret[r] = hist[r][n].resp

\* C8: a 401 without the NTLM token received inside the retry loop is the
\* last round trip of the request and is the response returned.
C8_PlainUnauthorizedNotRetried ==
    \A r \in Reqs : \A i \in DOMAIN hist[r] :
        ( /\ i >= 2
          /\ Received(r, i)
          /\ hist[r][i].resp.status = StatusUnauthorized
          /\ ~ClaimedChallenge(hist[r][i].resp) ) =>
            /\ Len(hist[r]) = i
            /\ Done(r) => ret[r] = hist[r][i].resp

\* C9: a first response that is not an NTLM challenge is returned as it is
\* after that single round trip.
C9_FirstNonChallengeReturned ==
    \A r \in Reqs :
        ( /\ Len(hist[r]) >= 1
          /\ Received(r, 1)
          /\ ~ClaimedChallenge(hist[r][1].resp) ) =>
            /\ Len(hist[r]) = 1
            /\ Done(r)
            /\ ret[r] = hist[r][1].resp

\* a 401 carrying only a Basic challenge, with retries available
C9_Witness ==
    \E r \in Reqs :
        /\ Done(r)
        /\ maxRetries >= 1
        /\ Len(hist[r]) = 1
        /\ Received(r, 1)
        /\ hist[r][1].resp.status = StatusUnauthorized
        /\ hist[r][1].resp.www = <<HdrBasic>>
        /\ hist[r][1].resp.proxy = <<>>

\* C10: the handler takes the retry branch after its first response exactly
\* when that response is a 401 whose WWW-Authenticate or Proxy-Authenticate
\* values contain NTLM in some letter case.
C10_ChallengeDetection ==
    \A r \in Reqs :
        (Len(hist[r]) >= 1 /\ Received(r, 1)) =>
            (phase[r] = "retry" <=> ClaimedChallenge(hist[r][1].resp))

Entered(r) == pc[r] # "idle"

\* C11: every round trip of one request transmits the same body bytes, the
\* whole body the inbound request arrived with.
C11_SameBodyEveryRoundTrip ==
    \A r \in Reqs : \A i \in DOMAIN hist[r] :
        Received(r, i) => hist[r][i].sent = orig[r].body

\* C12: when the handler has returned, the inbound request's body stream
\* holds the unread bytes it held when the handler was invoked.
C12_InboundBodyUntouched ==
    \A r \in Reqs : Done(r) => req[r].body = orig[r].body

\* C13: all round trips of one request go through one client instance.
C13_OneClientPerRequest ==
    \A r \in Reqs : \A i, j \in DOMAIN hist[r] : hist[r][i].via = hist[r][j].via

\* C14: a round trip that fails once the caller's context is cancelled is
\* the last round trip of the request, and the handler returns the
\* transport-failure response.
C14_CancelStopsRetries ==
    \A r \in Reqs : \A i \in DOMAIN hist[r] :
        (hist[r][i].cancelled /\ hist[r][i].err) =>
            /\ Len(hist[r]) = i
            /\ Done(r) => IsFailed407(ret[r])

\* C15: when createOutboundRequest fails, the handler has returned the
\* synthesized 407 and has performed no round trip.
C15_CloneFailureGives407 ==
    \A r \in Reqs :
        (Entered(r) /\ ~orig[r].valid) =>
            /\ Done(r)
            /\ IsFailed407(ret[r])
            /\ Len(hist[r]) = 0

C15_Witness ==
    \E r \in Reqs : Done(r) /\ ~orig[r].valid /\ orig[r].method = "POST" /\ maxRetries >= 1

\* C16: a cache entry, once present, is never removed and never replaced
\* by another instance.
C16_EntryIsPermanent ==
    [][\A h \in Hosts : cache[h] # 0 => cache'[h] = cache[h]]_vars

\* C17: every request handed to the transport has an empty RequestURI.
C17_RequestURIEmpty ==
    /\ \A r \in Reqs : \A i \in DOMAIN hist[r] : hist[r][i].uri = ""
    /\ \A r \in Reqs : pc[r] = "rt" => outReq[r].requestURI = ""

\* a retry was sent for an inbound request that carried a RequestURI
C17_Witness ==
    \E r \in Reqs : Len(hist[r]) >= 2 /\ orig[r].requestURI = "/"

\* C18: the outbound request has a header map of its own: a header set on
\* it by whoever holds it leaves the inbound request's headers as they were,
\* and a fresh outbound request has the inbound request's method, URL, host
\* and headers.
C18_HeadersIndependent ==
    \A r \in Reqs :
        /\ req[r].header = orig[r].header
        /\ pc[r] = "rt" =>
              /\ outReq[r].method = orig[r].method
              /\ outReq[r].url = orig[r].url
              /\ outReq[r].host = orig[r].host
              /\ outReq[r].header \in {orig[r].header, orig[r].header \cup {"Authorization"}}
        /\ pc[r] = "load" /\ phase[r] = "first" => outReq[r].header = orig[r].header

\* the transport has set a header on a rebuilt outbound request
C18_Witness ==
    \E r \in Reqs :
        /\ pc[r] = "rt"
        /\ phase[r] = "retry"
        /\ "Authorization" \in outReq[r].header
        /\ "Accept" \in req[r].header

\* C19: an invocation of the handler whose round trips all return reaches
\* its return.
C19_HandlerTerminates ==
    Entered(1) ~> Done(1)

\* the handler returned after spending the whole retry budget on failures
C19_Witness ==
    /\ Done(1)
    /\ maxRetries >= 1
    /\ Len(hist[1]) = maxRetries + 1
    /\ hist[1][Len(hist[1])].err

\* no two hosts share a client
DistinctClients ==
    \A h1, h2 \in Hosts : (h1 # h2 /\ cache[h1] # 0) => cache[h1] # cache[h2]

\* C20: a getNTLMClientForHost call changes at most the cache entry of its
\* own host, and no two hosts are mapped to the same client.
C20_HostsIsolated ==
    [][ /\ \A h \in Hosts :
              cache'[h] # cache[h] =>
                  \E r \in Reqs : pc[r] = "store" /\ pc'[r] # "store" /\ req[r].host = h
        /\ DistinctClients' ]_vars

\* both hosts have an entry
C20_Witness ==
    /\ \A h \in Hosts : cache[h] # 0
    /\ \A r \in Reqs : Done(r)

====
